---- MODULE Spec2Model ----
(***************************************************************************)
(* Model of scripts/inference.py: the import-time dependency bootstrap,    *)
(* main(config, args) up to the inference pipeline call, and the four      *)
(* post-processing subprocess stages with their directory bookkeeping.     *)
(***************************************************************************)
EXTENDS Integers, Sequences, FiniteSets, TLC

\* ---------------------------------------------------------------- bounds
\* exit codes of an external process range over 0..MaxExit
MaxExit == 1
\* captured stderr is a byte string of at most MaxErrLen bytes
MaxErrLen == 1
\* torch.seed() draws a non-negative seed in 0..MaxRandSeed
MaxRandSeed == 1

ExitCodes == 0..MaxExit
\* 'A', the lead byte 0xC3 of a two-byte sequence, the continuation byte 0xA9
Bytes == {65, 195, 169}

RECURSIVE SeqsUpTo(_, _)
SeqsUpTo(S, n) ==
    IF n = 0 THEN {<<>>}
    ELSE LET shorter == SeqsUpTo(S, n - 1)
         IN  shorter \cup {Append(q, x) : q \in {r \in shorter : Len(r) = n - 1}, x \in S}

StderrValues == SeqsUpTo(Bytes, MaxErrLen)

\* ---------------------------------------------------------------- inputs
\* --seed: the default, the "random" marker, and zero
DefaultSeed == 1247
RandomSeedFlag == 0 - 1
SeedArgs == {RandomSeedFlag, 0, DefaultSeed}
VideoOutPaths == {<<"out.mp4">>, <<"results", "out.mp4">>}
CrossAttentionDims == {0, 384, 512, 768}

\* ---------------------------------------------------------------- paths
Join(dir, name) == dir \o <<name>>
DirName(p) == SubSeq(p, 1, Len(p) - 1)

frames_dir == <<"temp_frames">>
enhanced_frames_dir == <<"enhanced_frames">>
final_frames_dir == <<"final_frames">>
final_video_path == <<"final_video.mp4">>
codeformer_repo == <<"CodeFormer">>

FsPaths == {frames_dir, enhanced_frames_dir, final_frames_dir, final_video_path, codeformer_repo}

\* os.path.exists
PathExists(f, p) == f[p] # "absent"

\* os.makedirs (exist_ok defaults to False): "ok" and the new filesystem,
\* or FileExistsError
MakeDirs(f, p) ==
    IF PathExists(f, p)
    THEN [exc |-> "FileExistsError", fs |-> f]
    ELSE [exc |-> "none", fs |-> [f EXCEPT ![p] = "new"]]

\* variant: the existence test is dropped
EnsureDir_Unguarded(f, p) == MakeDirs(f, p)

\* if not os.path.exists(d): os.makedirs(d)
EnsureDir(f, p) ==
    IF ~PathExists(f, p) THEN MakeDirs(f, p) ELSE [exc |-> "none", fs |-> f]

\* ---------------------------------------------------------------- bytes.decode("utf-8")
IsCont(b) == b \in 128..191

RECURSIVE Utf8Decode(_)
Utf8Decode(b) ==
    IF b = <<>> THEN [ok |-> TRUE, text |-> <<>>]
    ELSE
      LET h == Head(b)
          n == Len(b)
          \* length of the well-formed sequence starting here, 0 if ill-formed
          k == IF h < 128 THEN 1
               ELSE IF h \in 194..223 /\ n >= 2 /\ IsCont(b[2]) THEN 2
               ELSE IF h \in 224..239 /\ n >= 3 /\ IsCont(b[2]) /\ IsCont(b[3])
                       /\ (h = 224 => b[2] >= 160) /\ (h = 237 => b[2] <= 159) THEN 3
               ELSE IF h \in 240..244 /\ n >= 4 /\ IsCont(b[2]) /\ IsCont(b[3]) /\ IsCont(b[4])
                       /\ (h = 240 => b[2] >= 144) /\ (h = 244 => b[2] <= 143) THEN 4
               ELSE 0
          cp == IF k = 1 THEN h
                ELSE IF k = 2 THEN (h - 192) * 64 + (b[2] - 128)
                ELSE IF k = 3 THEN (h - 224) * 4096 + (b[2] - 128) * 64 + (b[3] - 128)
                ELSE (h - 240) * 262144 + (b[2] - 128) * 4096 + (b[3] - 128) * 64 + (b[4] - 128)
      IN  IF k = 0 THEN [ok |-> FALSE, text |-> <<>>]
          ELSE LET rest == Utf8Decode(SubSeq(b, k + 1, n))
               IN  IF rest.ok THEN [ok |-> TRUE, text |-> <<cp>> \o rest.text]
                   ELSE [ok |-> FALSE, text |-> <<>>]

\* ---------------------------------------------------------------- main's decisions
\* variant: the final else falls back to the tiny checkpoint instead of raising
WhisperModelPath_NoRaise(cad) ==
    IF cad = 768 THEN "checkpoints/whisper/small.pt" ELSE "checkpoints/whisper/tiny.pt"

\* variant: the two checkpoints are exchanged
WhisperModelPath_Swapped(cad) ==
    IF cad = 768 THEN "checkpoints/whisper/tiny.pt"
    ELSE IF cad = 384 THEN "checkpoints/whisper/small.pt"
    ELSE "NotImplementedError"

\* lines 67-72: the checkpoint path, or the NotImplementedError
WhisperModelPath(cad) ==
    IF cad = 768 THEN "checkpoints/whisper/small.pt"
    ELSE IF cad = 384 THEN "checkpoints/whisper/tiny.pt"
    ELSE "NotImplementedError"

\* variant: the seed is always passed to set_seed
SeedCallFor_Always(seed) == "set_seed"

\* lines 99-102: which seeding call is made for --seed
SeedCallFor(seed) == IF seed # RandomSeedFlag THEN "set_seed" ELSE "torch.seed"

\* variant: CodeFormer is run before GFPGAN
StageOrder_Swapped == <<"extract", "codeformer", "gfpgan", "reencode">>

\* the post-processing stages in program order
StageOrder == <<"extract", "gfpgan", "codeformer", "reencode">>
Stages == {"extract", "gfpgan", "codeformer", "reencode"}

\* the directory each stage's bookkeeping creates (none for re-encoding)
StageHasDir(s) == s \in {"extract", "gfpgan", "codeformer"}
\* variant: the GFPGAN bookkeeping tests and creates frames_dir again
StageDir_Copied(s) ==
    IF s = "extract" THEN frames_dir
    ELSE IF s = "gfpgan" THEN frames_dir
    ELSE final_frames_dir

StageDir(s) ==
    IF s = "extract" THEN frames_dir
    ELSE IF s = "gfpgan" THEN enhanced_frames_dir
    ELSE final_frames_dir

\* the command lists, reduced to program, input location, output location
ExtractCommand(a) ==
    [prog |-> "ffmpeg", input |-> a.video_out_path, output |-> Join(frames_dir, "frame_%04d.png")]
\* variant: GFPGAN is pointed at its own output directory
GfpganCommand_WrongInput ==
    [prog |-> "python -m gfpgan", input |-> enhanced_frames_dir, output |-> enhanced_frames_dir]

GfpganCommand ==
    [prog |-> "python -m gfpgan", input |-> frames_dir, output |-> enhanced_frames_dir]
CodeformerCommand ==
    [prog |-> "python CodeFormer/inference_codeformer.py",
     input |-> enhanced_frames_dir, output |-> final_frames_dir]
ReencodeCommand ==
    [prog |-> "ffmpeg", input |-> Join(final_frames_dir, "frame_%04d.png"), output |-> final_video_path]

StageCommand(s, a) ==
    IF s = "extract" THEN ExtractCommand(a)
    ELSE IF s = "gfpgan" THEN GfpganCommand
    ELSE IF s = "codeformer" THEN CodeformerCommand
    ELSE ReencodeCommand

NoCommand == [prog |-> "none", input |-> <<>>, output |-> <<>>]

\* variant: subprocess.call, which returns the exit code without raising
CheckCall_Unchecked(rc) == "none"

\* subprocess.check_call: CalledProcessError on a non-zero exit code
CheckCall(rc) == IF rc = 0 THEN "none" ELSE "CalledProcessError"

\* variant: the pipeline call's exception is swallowed
AfterPipeline_Swallow(ok) == "mkdir"

\* where control goes when the pipeline call returns or raises
AfterPipeline(ok) == IF ok THEN "mkdir" ELSE "crashed"

\* lines 137-141 and their copies: the branch taken on result.returncode
ReportKind(rc) == IF rc = 0 THEN "success" ELSE "error"

\* ---------------------------------------------------------------- state
VARIABLES
    pc,             \* position in the script
    fs,             \* working directory: path -> "absent" | "old" | "new"
    args,           \* parsed command line
    cad,            \* config.model.cross_attention_dim
    importFailed,   \* "import gfpgan" raised ImportError
    repoMissing,    \* os.path.exists("CodeFormer") was False
    bootCalls,      \* bootstrap commands issued, with their exit codes
    progress,       \* script-level milestones reached: "args", "config", "main"
    loaded,         \* objects loaded or constructed by main
    whisper_model_path,
    audio_model_path,   \* model_path the Audio2Feature was built with
    seedCall,       \* "none" | "set_seed" | "torch.seed"
    initial_seed,   \* <<>> before seeding, <<value>> after
    pipelineState,  \* "none" | "called" | "returned" | "raised"
    pipelineArgs,   \* video_out_path passed to the pipeline call
    step,           \* index into StageOrder of the current stage, 0 before
    cmds,           \* stage -> command it was started with
    invoked,        \* stage -> number of times the command was started
    started,        \* stages in the order their processes were started
    running,        \* processes started by main that have not terminated
    result,         \* the CompletedProcess of the last subprocess.run
    reported,       \* stage -> "none" | "success" | "error" | "error_without_stderr"
    printed,        \* the text printed by the last error report
    exc             \* the uncaught exception, "none" while running

vars == <<pc, fs, args, cad, importFailed, repoMissing, bootCalls, progress, loaded,
          whisper_model_path, audio_model_path, seedCall, initial_seed, pipelineState,
          pipelineArgs, step, cmds, invoked, started, running, result, reported,
          printed, exc>>

mainVars == <<loaded, whisper_model_path, audio_model_path, seedCall, initial_seed,
              pipelineState, pipelineArgs>>
stageVars == <<step, cmds, invoked, started, running, result, reported, printed>>
bootVars == <<importFailed, repoMissing, bootCalls>>

Init ==
    /\ pc = "import_gfpgan"
    /\ fs \in [FsPaths -> {"absent", "old"}]
    /\ args \in [seed : SeedArgs, video_path : {<<"in.mp4">>}, video_out_path : VideoOutPaths]
    /\ cad \in CrossAttentionDims
    /\ importFailed = FALSE
    /\ repoMissing = FALSE
    /\ bootCalls = <<>>
    /\ progress = {}
    /\ loaded = {}
    /\ whisper_model_path = "unset"
    /\ audio_model_path = "unset"
    /\ seedCall = "none"
    /\ initial_seed = <<>>
    /\ pipelineState = "none"
    /\ pipelineArgs = <<>>
    /\ step = 0
    /\ cmds = [s \in Stages |-> NoCommand]
    /\ invoked = [s \in Stages |-> 0]
    /\ started = <<>>
    /\ running = {}
    /\ result = [returncode |-> 0, stderr |-> <<>>]
    /\ reported = [s \in Stages |-> "none"]
    /\ printed = <<>>
    /\ exc = "none"

Raise(e) == /\ pc' = "crashed"
            /\ exc' = e

\* ---------------------------------------------------------------- bootstrap
\* lines 34-38: try: import gfpgan / except ImportError
ImportGfpgan ==
    /\ pc = "import_gfpgan"
    /\ \E importable \in BOOLEAN :
          /\ importFailed' = ~importable
          /\ pc' = IF importable THEN "check_codeformer" ELSE "install_gfpgan"
    /\ UNCHANGED <<fs, args, cad, repoMissing, bootCalls, progress, mainVars, stageVars, exc>>

\* lines 30-31, 38: install_package("gfpgan")
InstallGfpgan ==
    /\ pc = "install_gfpgan"
    /\ \E rc \in ExitCodes :
          /\ bootCalls' = Append(bootCalls, [cmd |-> "pip install gfpgan", rc |-> rc])
          /\ IF CheckCall(rc) = "none"
             THEN pc' = "check_codeformer" /\ exc' = exc
             ELSE Raise(CheckCall(rc))
    /\ UNCHANGED <<fs, args, cad, importFailed, repoMissing, progress, mainVars, stageVars>>

\* line 41: if not os.path.exists("CodeFormer")
CheckCodeFormer ==
    /\ pc = "check_codeformer"
    /\ repoMissing' = ~PathExists(fs, codeformer_repo)
    /\ pc' = IF PathExists(fs, codeformer_repo) THEN "parse_args" ELSE "clone_codeformer"
    /\ UNCHANGED <<fs, args, cad, importFailed, bootCalls, progress, mainVars, stageVars, exc>>

\* line 43: git clone
CloneCodeFormer ==
    /\ pc = "clone_codeformer"
    /\ \E rc \in ExitCodes :
          /\ bootCalls' = Append(bootCalls, [cmd |-> "git clone", rc |-> rc])
          /\ IF CheckCall(rc) = "none"
             THEN /\ pc' = "install_requirements"
                  /\ exc' = exc
                  /\ fs' = [fs EXCEPT ![codeformer_repo] = "new"]
             ELSE Raise(CheckCall(rc)) /\ fs' = fs
    /\ UNCHANGED <<args, cad, importFailed, repoMissing, progress, mainVars, stageVars>>

\* line 45: pip install -r CodeFormer/requirements.txt
InstallCodeFormerReqs ==
    /\ pc = "install_requirements"
    /\ \E rc \in ExitCodes :
          /\ bootCalls' = Append(bootCalls, [cmd |-> "pip install -r", rc |-> rc])
          /\ IF CheckCall(rc) = "none"
             THEN pc' = "parse_args" /\ exc' = exc
             ELSE Raise(CheckCall(rc))
    /\ UNCHANGED <<fs, args, cad, importFailed, repoMissing, progress, mainVars, stageVars>>

\* lines 210-219: parser.parse_args()
ParseArgs ==
    /\ pc = "parse_args"
    /\ progress' = progress \cup {"args"}
    /\ pc' = "load_config"
    /\ UNCHANGED <<fs, args, cad, bootVars, mainVars, stageVars, exc>>

\* lines 221-223: OmegaConf.load, then main(config, args) is entered
LoadConfig ==
    /\ pc = "load_config"
    /\ \E ok \in BOOLEAN :
          IF ok THEN /\ progress' = progress \cup {"config", "main"}
                     /\ pc' = "load_scheduler"
                     /\ exc' = exc
                ELSE /\ progress' = progress
                     /\ Raise("ConfigError")
    /\ UNCHANGED <<fs, args, cad, bootVars, mainVars, stageVars>>

\* ---------------------------------------------------------------- main: loading
\* a from_pretrained / constructor call that either yields the object or raises
Load(here, name, next) ==
    /\ pc = here
    /\ \E ok \in BOOLEAN :
          IF ok THEN /\ loaded' = loaded \cup {name}
                     /\ pc' = next
                     /\ exc' = exc
                ELSE /\ loaded' = loaded
                     /\ Raise("LoadError")

\* line 65
LoadScheduler ==
    /\ Load("load_scheduler", "scheduler", "select_whisper")
    /\ UNCHANGED <<fs, args, cad, bootVars, progress, whisper_model_path, audio_model_path,
                   seedCall, initial_seed, pipelineState, pipelineArgs, stageVars>>

\* lines 67-72
SelectWhisper ==
    /\ pc = "select_whisper"
    /\ IF WhisperModelPath(cad) = "NotImplementedError"
       THEN Raise("NotImplementedError") /\ whisper_model_path' = whisper_model_path
       ELSE /\ whisper_model_path' = WhisperModelPath(cad)
            /\ pc' = "load_audio_encoder"
            /\ exc' = exc
    /\ UNCHANGED <<fs, args, cad, bootVars, progress, loaded, audio_model_path,
                   seedCall, initial_seed, pipelineState, pipelineArgs, stageVars>>

\* line 74
LoadAudioEncoder ==
    /\ Load("load_audio_encoder", "audio_encoder", "load_vae")
    /\ audio_model_path' = whisper_model_path
    /\ UNCHANGED <<fs, args, cad, bootVars, progress, whisper_model_path,
                   seedCall, initial_seed, pipelineState, pipelineArgs, stageVars>>

\* lines 76-78
LoadVae ==
    /\ Load("load_vae", "vae", "load_unet")
    /\ UNCHANGED <<fs, args, cad, bootVars, progress, whisper_model_path, audio_model_path,
                   seedCall, initial_seed, pipelineState, pipelineArgs, stageVars>>

\* lines 80-90
LoadUnet ==
    /\ Load("load_unet", "unet", "build_pipeline")
    /\ UNCHANGED <<fs, args, cad, bootVars, progress, whisper_model_path, audio_model_path,
                   seedCall, initial_seed, pipelineState, pipelineArgs, stageVars>>

\* lines 92-97
BuildPipeline ==
    /\ Load("build_pipeline", "pipeline", "seed")
    /\ UNCHANGED <<fs, args, cad, bootVars, progress, whisper_model_path, audio_model_path,
                   seedCall, initial_seed, pipelineState, pipelineArgs, stageVars>>

\* lines 99-104
Seed ==
    /\ pc = "seed"
    /\ seedCall' = SeedCallFor(args.seed)
    /\ IF SeedCallFor(args.seed) = "set_seed"
       THEN initial_seed' = <<args.seed>>
       ELSE \E r \in 0..MaxRandSeed : initial_seed' = <<r>>
    /\ pc' = "pipeline_call"
    /\ UNCHANGED <<fs, args, cad, bootVars, progress, loaded, whisper_model_path,
                   audio_model_path, pipelineState, pipelineArgs, stageVars, exc>>

\* lines 106-117: the call is entered
PipelineCall ==
    /\ pc = "pipeline_call"
    /\ pipelineState' = "called"
    /\ pipelineArgs' = args.video_out_path
    /\ pc' = "pipeline_wait"
    /\ UNCHANGED <<fs, args, cad, bootVars, progress, loaded, whisper_model_path,
                   audio_model_path, seedCall, initial_seed, stageVars, exc>>

\* lines 106-117: the call returns or raises
PipelineReturn ==
    /\ pc = "pipeline_wait"
    /\ \E ok \in BOOLEAN :
          /\ pipelineState' = IF ok THEN "returned" ELSE "raised"
          /\ pc' = AfterPipeline(ok)
          /\ exc' = IF ok THEN exc ELSE "PipelineError"
          /\ step' = IF AfterPipeline(ok) = "mkdir" THEN 1 ELSE step
    /\ UNCHANGED <<fs, args, cad, bootVars, progress, loaded, whisper_model_path,
                   audio_model_path, seedCall, initial_seed, pipelineArgs,
                   cmds, invoked, started, running, result, reported, printed>>

\* ---------------------------------------------------------------- main: post-processing
CurrentStage == StageOrder[step]

\* lines 121-123, 145-147, 166-168: if not os.path.exists(d): os.makedirs(d)
MakeStageDir ==
    /\ pc = "mkdir"
    /\ LET r == EnsureDir(fs, StageDir(CurrentStage))
       IN  /\ fs' = r.fs
           /\ IF r.exc = "none" THEN pc' = "run" /\ exc' = exc ELSE Raise(r.exc)
    /\ UNCHANGED <<args, cad, bootVars, progress, mainVars, stageVars>>

\* lines 126-134, 149-156, 170-177, 187-197: build the command, subprocess.run starts it
RunStage ==
    /\ pc = "run"
    /\ cmds' = [cmds EXCEPT ![CurrentStage] = StageCommand(CurrentStage, args)]
    /\ invoked' = [invoked EXCEPT ![CurrentStage] = @ + 1]
    /\ started' = Append(started, CurrentStage)
    /\ running' = running \cup {CurrentStage}
    /\ pc' = "wait"
    /\ UNCHANGED <<fs, args, cad, bootVars, progress, mainVars, step, result, reported,
                   printed, exc>>

\* subprocess.run blocks until the process terminates; the process chooses its
\* exit code and stderr, and the encoder, when it runs, may write its output file
StageExit ==
    /\ pc = "wait"
    /\ CurrentStage \in running
    /\ \E rc \in ExitCodes, err \in StderrValues, wrote \in BOOLEAN :
          /\ (rc = 0 => wrote)
          /\ (cmds[CurrentStage].output # final_video_path => wrote)
          /\ result' = [returncode |-> rc, stderr |-> err]
          /\ fs' = IF cmds[CurrentStage].output = final_video_path /\ wrote
                   THEN [fs EXCEPT ![final_video_path] = "new"]
                   ELSE fs
    /\ running' = running \ {CurrentStage}
    /\ pc' = "report"
    /\ UNCHANGED <<args, cad, bootVars, progress, mainVars, step, cmds, invoked, started,
                   reported, printed, exc>>

\* where main goes after a stage's report
AfterReport(n) ==
    IF n < Len(StageOrder)
    THEN IF StageHasDir(StageOrder[n + 1]) THEN "mkdir" ELSE "run"
    ELSE "done"

\* lines 137-141, 157-161, 178-182, 198-202
ReportStage ==
    /\ pc = "report"
    /\ IF ReportKind(result.returncode) = "success"
       THEN /\ reported' = [reported EXCEPT ![CurrentStage] = "success"]
            /\ printed' = <<>>
            /\ pc' = AfterReport(step)
            /\ exc' = exc
            /\ step' = IF step < Len(StageOrder) THEN step + 1 ELSE step
       ELSE LET d == Utf8Decode(result.stderr)
            IN  IF d.ok
                THEN /\ reported' = [reported EXCEPT ![CurrentStage] = "error"]
                     /\ printed' = d.text
                     /\ pc' = AfterReport(step)
                     /\ exc' = exc
                     /\ step' = IF step < Len(StageOrder) THEN step + 1 ELSE step
                ELSE /\ reported' = [reported EXCEPT ![CurrentStage] = "error_without_stderr"]
                     /\ printed' = <<>>
                     /\ Raise("UnicodeDecodeError")
                     /\ step' = step
    /\ UNCHANGED <<fs, args, cad, bootVars, progress, mainVars, cmds, invoked, started,
                   running, result>>

Next ==
    \/ ImportGfpgan
    \/ InstallGfpgan
    \/ CheckCodeFormer
    \/ CloneCodeFormer
    \/ InstallCodeFormerReqs
    \/ ParseArgs
    \/ LoadConfig
    \/ LoadScheduler
    \/ SelectWhisper
    \/ LoadAudioEncoder
    \/ LoadVae
    \/ LoadUnet
    \/ BuildPipeline
    \/ Seed
    \/ PipelineCall
    \/ PipelineReturn
    \/ MakeStageDir
    \/ RunStage
    \/ StageExit
    \/ ReportStage

Spec == Init /\ [][Next]_vars

TypeOK ==
    /\ step \in 0..Len(StageOrder)
    /\ running \subseteq Stages

\* ---------------------------------------------------------------- properties
Finished == pc \in {"done", "crashed"}
PostDirs == {frames_dir, enhanced_frames_dir, final_frames_dir}

\* the stage whose CompletedProcess is still held in result after its report
LastReported ==
    IF pc = "done" THEN Len(StageOrder)
    ELSE IF pc \in {"mkdir", "run"} THEN step - 1
    ELSE 0

\* C1: once the pipeline call has returned, main never aborts; when it has
\* returned every stage was invoked exactly once and reported, an error report
\* always carries the stage's stderr, and the report just made is "success"
\* exactly when the exit code was zero.
C1_StagesNonFatal ==
    pipelineState = "returned" =>
        /\ pc # "crashed"
        /\ \A s \in Stages : reported[s] \in {"none", "success", "error"}
        /\ pc = "done" =>
              \A s \in Stages : invoked[s] = 1 /\ reported[s] \in {"success", "error"}
        /\ LastReported > 0 =>
              (result.returncode = 0 <=> reported[StageOrder[LastReported]] = "success")

\* C2 (as stated): when the NotImplementedError is raised nothing has been
\* loaded or constructed, the scheduler included.
C2_NothingLoadedAtRaise ==
    exc = "NotImplementedError" => loaded = {}

\* C2 (amended): for a cross_attention_dim other than 768 and 384 main never
\* loads the audio encoder, the VAE, the U-Net or the pipeline and never calls
\* the pipeline; when the NotImplementedError is raised exactly the scheduler
\* has been loaded.
C2_OnlySchedulerLoadedAtRaise ==
    /\ cad \notin {768, 384} =>
          /\ loaded \subseteq {"scheduler"}
          /\ pipelineState = "none"
          /\ pc \notin {"load_audio_encoder", "load_vae", "load_unet", "build_pipeline",
                        "seed", "done"}
    /\ exc = "NotImplementedError" => cad \notin {768, 384} /\ loaded = {"scheduler"}

C2_Witness ==
    exc = "NotImplementedError" /\ cad = 512 /\ pc = "crashed"

\* C3: the model_path handed to the audio encoder is small.pt for 768 and
\* tiny.pt for 384, and for any other dimension no audio encoder is built.
C3_WhisperPathMatchesDim ==
    /\ cad = 768 /\ audio_model_path # "unset" => audio_model_path = "checkpoints/whisper/small.pt"
    /\ cad = 384 /\ audio_model_path # "unset" => audio_model_path = "checkpoints/whisper/tiny.pt"
    /\ cad \notin {768, 384} => audio_model_path = "unset" /\ "audio_encoder" \notin loaded
    /\ "audio_encoder" \in loaded => audio_model_path # "unset"

C3_Witness ==
    cad = 384 /\ "audio_encoder" \in loaded /\ audio_model_path = "checkpoints/whisper/tiny.pt"

\* C4: every directory bookkeeping step leaves an existing directory exactly
\* as it was, leaves the directory existing afterwards, and raises nothing.
C4_DirsCreatedIdempotently ==
    [][pc = "mkdir" =>
          LET d == IF step = 1 THEN frames_dir
                   ELSE IF step = 2 THEN enhanced_frames_dir
                   ELSE final_frames_dir
          IN  /\ fs'[d] # "absent"
              /\ fs[d] # "absent" => fs'[d] = fs[d]
              /\ \A p \in FsPaths \ {d} : fs'[p] = fs[p]
              /\ exc' = "none"
              /\ pc' = "run"]_vars

C4_Witness ==
    /\ pc = "done"
    /\ fs[frames_dir] = "old"
    /\ fs[enhanced_frames_dir] = "new"
    /\ fs[final_frames_dir] = "old"

\* C5: the stage processes are started in the order extraction, GFPGAN,
\* CodeFormer, re-encoding, only after the pipeline call has returned, and a
\* stage is started only when no process started by main is still running.
C5_StagesStrictlySequential ==
    /\ Cardinality(running) <= 1
    /\ Len(started) <= 4
    /\ started = SubSeq(<<"extract", "gfpgan", "codeformer", "reencode">>, 1, Len(started))
    /\ started # <<>> => pipelineState = "returned"
    /\ running # {} => running = {started[Len(started)]} /\ pc = "wait"
    /\ pc = "run" => running = {}

C5_Witness ==
    running = {"reencode"} /\ Len(started) = 4

\* C6 (as stated): when main has returned, the three directories and a
\* final_video.mp4 written by this run exist and every program was invoked.
C6_AllArtifactsAfterRun ==
    pc = "done" =>
        /\ \A d \in PostDirs : fs[d] # "absent"
        /\ fs[final_video_path] = "new"
        /\ \A s \in Stages : invoked[s] >= 1

\* C6 (amended): after a run in which inference completed, temp_frames exists
\* and frame extraction was invoked; when main has returned, the three
\* directories exist and every program was invoked exactly once, and
\* final_video.mp4 has been written by the run if the re-encoding stage exited
\* with zero (it may be missing when that stage exited non-zero).
C6_ArtifactsAfterRun ==
    /\ Finished /\ pipelineState = "returned" =>
          fs[frames_dir] # "absent" /\ invoked["extract"] = 1
    /\ pc = "done" =>
          /\ \A d \in PostDirs : fs[d] # "absent"
          /\ \A s \in Stages : invoked[s] = 1
          /\ result.returncode = 0 => fs[final_video_path] = "new"

C6_Witness ==
    /\ pc = "done"
    /\ result.returncode # 0
    /\ fs[final_video_path] = "absent"
    /\ \A d \in PostDirs : fs[d] = "new"

\* C7: a seed other than -1 is passed to set_seed and becomes the initial
\* seed with no random draw; for -1 a random seed is drawn and -1 is not the
\* initial seed; the pipeline is never called before seeding.
C7_SeedControlsSeeding ==
    /\ seedCall # "none" /\ args.seed # -1 =>
          seedCall = "set_seed" /\ initial_seed = <<args.seed>>
    /\ seedCall # "none" /\ args.seed = -1 =>
          seedCall = "torch.seed" /\ Len(initial_seed) = 1 /\ initial_seed[1] # -1
    /\ seedCall = "none" => initial_seed = <<>>
    /\ pipelineState # "none" => seedCall # "none"

C7_Witness ==
    args.seed = -1 /\ seedCall = "torch.seed" /\ pipelineState = "called"

\* C8: each stage that was started reads the location the previous one was
\* told to write: pipeline output -> extraction -> temp_frames -> GFPGAN ->
\* enhanced_frames -> CodeFormer -> final_frames -> re-encoding -> final_video.mp4.
C8_HandOffChain ==
    /\ invoked["extract"] > 0 =>
          /\ pipelineArgs = args.video_out_path
          /\ cmds["extract"].input = pipelineArgs
          /\ DirName(cmds["extract"].output) = <<"temp_frames">>
    /\ invoked["gfpgan"] > 0 =>
          /\ cmds["gfpgan"].input = DirName(cmds["extract"].output)
          /\ cmds["gfpgan"].output = <<"enhanced_frames">>
    /\ invoked["codeformer"] > 0 =>
          /\ cmds["codeformer"].input = cmds["gfpgan"].output
          /\ cmds["codeformer"].output = <<"final_frames">>
    /\ invoked["reencode"] > 0 =>
          /\ DirName(cmds["reencode"].input) = cmds["codeformer"].output
          /\ cmds["reencode"].input[2] = cmds["extract"].output[2]
          /\ cmds["reencode"].output = <<"final_video.mp4">>

C8_Witness ==
    /\ invoked["reencode"] = 1
    /\ reported["extract"] = "error"
    /\ reported["codeformer"] = "error"

\* C9: unless the pipeline call has returned, main has created none of the
\* three directories, started none of the four commands and final_video.mp4
\* has not been written.
C9_NoSideEffectsBeforeInference ==
    pipelineState # "returned" =>
        /\ \A d \in PostDirs : fs[d] # "new"
        /\ fs[final_video_path] # "new"
        /\ \A s \in Stages : invoked[s] = 0
        /\ started = <<>>
        /\ step = 0

C9_Witness ==
    pc = "crashed" /\ pipelineState = "raised" /\ exc = "PipelineError"

\* C10: pip install gfpgan is issued only after a failed import, git clone and
\* the requirements install only when CodeFormer was absent, the latter right
\* after the former; a non-zero exit of any of them stops the script before
\* argument parsing, so when main has started they all exited with zero.
C10_BootstrapFatal ==
    /\ \A i \in 1..Len(bootCalls) :
          /\ bootCalls[i].cmd = "pip install gfpgan" => importFailed
          /\ bootCalls[i].cmd \in {"git clone", "pip install -r"} =>
                repoMissing /\ fs[codeformer_repo] # "old"
          /\ bootCalls[i].cmd = "pip install -r" =>
                i > 1 /\ bootCalls[i - 1].cmd = "git clone"
          /\ bootCalls[i].rc # 0 =>
                pc = "crashed" /\ exc = "CalledProcessError" /\ progress = {}
    /\ progress # {} => \A i \in 1..Len(bootCalls) : bootCalls[i].rc = 0

C10_Witness ==
    /\ pc = "crashed"
    /\ exc = "CalledProcessError"
    /\ Len(bootCalls) = 3
    /\ progress = {}

====
